---- MODULE Spec2Model ----
(***************************************************************************)
(* Model of the two batch pipelines of the repository:                     *)
(*   backend/scripts/fix-invoice-taxes-posted-python.py   (tax pipeline)   *)
(*   backend/scripts/update-amazon-b2b-partners.py        (partner pipeline)*)
(* Each remote call (execute_kw) is one step; the remote store answers a   *)
(* call normally ("ok"), with a fault before executing it ("fault"), or -  *)
(* for the calls that change the store - with a fault raised after having  *)
(* executed the method or not ("ambiguous"; for button_draft and           *)
(* action_post this is the 'cannot marshal None' fault).                   *)
(***************************************************************************)
EXTENDS Integers, Sequences, FiniteSets, TLC

\* ------------------------------------------------------------------ bounds
NumInvoices == 2
MaxLines == 2
\* answers other than a normal return that the remote store gives in one behaviour
MaxFaults == 2

\* --------------------------------------------------------- tax: constants
BE_VAT_21 == 1

COUNTRIES == {"DE", "FR", "IT", "NL", "PL", "CZ", "GB"}

DOMESTIC_TAXES ==
  [c \in COUNTRIES |->
     CASE c = "DE" -> 135
       [] c = "FR" -> 122
       [] c = "IT" -> 180
       [] c = "NL" -> 136
       [] c = "PL" -> 194
       [] c = "CZ" -> 187
       [] c = "GB" -> 182]

\* the items() of INVOICE_PREFIX_TO_COUNTRY, in insertion order
PREFIXES == <<"VDE", "VFR", "VIT", "VNL", "VPL", "VCZ", "VGB">>

INVOICE_PREFIX_TO_COUNTRY ==
  [p \in {PREFIXES[k] : k \in 1..Len(PREFIXES)} |->
     CASE p = "VDE" -> "DE"
       [] p = "VFR" -> "FR"
       [] p = "VIT" -> "IT"
       [] p = "VNL" -> "NL"
       [] p = "VPL" -> "PL"
       [] p = "VCZ" -> "CZ"
       [] p = "VGB" -> "GB"]

\* the rate limiting: a pause every PauseEvery invoices fixed
PauseEvery == 20

DateFrom == 20251101
DateTo == 20251231

\* uid returned by a failed authenticate (False)
NoUid == "False"

\* ----------------------------------------------------------- tax: store
Inv == 1..NumInvoices

\* account.move.line records the store may hold
LineChoices ==
  { [display_type |-> "product", tax_ids |-> {BE_VAT_21, 5}],
    [display_type |-> "product", tax_ids |-> {135}],
    [display_type |-> "line_section", tax_ids |-> {}] }

\* the lines of an invoice: a section line, if any, comes first
LineSeqs ==
  { ls \in UNION {[1..n -> LineChoices] : n \in 0..MaxLines} :
      \A k \in 2..Len(ls) : ls[k].display_type # "line_section" }

\* account.move headers the store may hold
HeaderChoices ==
  { [prefix |-> "VDE", state |-> "posted", move_type |-> "out_invoice", invoice_date |-> 20251115],
    [prefix |-> "VFR", state |-> "posted", move_type |-> "out_invoice", invoice_date |-> 20251231],
    [prefix |-> "VDE", state |-> "draft",  move_type |-> "out_invoice", invoice_date |-> 20251101],
    [prefix |-> "VDE", state |-> "posted", move_type |-> "out_refund",  invoice_date |-> 20260101] }

Move(h, ls) ==
  [prefix |-> h.prefix, state |-> h.state, move_type |-> h.move_type,
   invoice_date |-> h.invoice_date, lines |-> ls]

WrongLine == [display_type |-> "product", tax_ids |-> {BE_VAT_21}]
RightLine == [display_type |-> "product", tax_ids |-> {135}]

\* the first invoice of a store: a posted VDE invoice of the window with any lines,
\* or any header with one product line
Moves ==
  { Move(h, ls) : h \in {x \in HeaderChoices : x.prefix = "VDE" /\ x.state = "posted"
                                               /\ x.move_type = "out_invoice"},
                  ls \in LineSeqs }
  \cup { Move(h, <<l>>) : h \in HeaderChoices, l \in {WrongLine, RightLine} }

\* posted invoices of the window with one product line
PlainMoves ==
  { Move(h, <<l>>) : h \in {x \in HeaderChoices : x.state = "posted"
                                                  /\ x.move_type = "out_invoice"},
                     l \in {WrongLine, RightLine} }

\* the other invoices of a store: a VDE invoice with the wrong tax or a VFR invoice
\* with a right one
OtherMoves ==
  { m \in PlainMoves : (m.prefix = "VDE" /\ m.lines[1] = WrongLine)
                       \/ (m.prefix = "VFR" /\ m.lines[1] = RightLine) }

\* the stores a run starts from
Stores ==
  { s \in [Inv -> Moves \cup PlainMoves] : \A i \in Inv : i > 1 => s[i] \in OtherMoves }

\* the store of the long batch: PauseEvery + 2 posted VDE invoices of the window with
\* one product line each, all carrying the wrong tax but the second
PacingStore ==
  [i \in 1..(PauseEvery + 2) |->
     Move([prefix |-> "VDE", state |-> "posted", move_type |-> "out_invoice",
           invoice_date |-> 20251115],
          <<IF i = 2 THEN RightLine ELSE WrongLine>>)]

\* the stores of the behaviours with two runs: the first invoice has one or two
\* product lines
TwiceStores ==
  { s \in Stores :
      \/ s[1] \in PlainMoves
      \/ /\ s[1].prefix = "VDE" /\ s[1].state = "posted" /\ s[1].move_type = "out_invoice"
         /\ Len(s[1].lines) = 2
         /\ \A j \in 1..2 : s[1].lines[j].display_type = "product" }

\* ----------------------------------------------------- partner: strings
\* a string is a sequence of tokens; " " is white space
None == <<"None">>

Truthy(v) == v # <<>> /\ v # None

\* Python's `a or b`
Or(a, b) == IF Truthy(a) THEN a ELSE b

RECURSIVE LStrip(_)
LStrip(s) == IF s # <<>> /\ Head(s) = " " THEN LStrip(Tail(s)) ELSE s

RECURSIVE RStrip(_)
RStrip(s) == IF s # <<>> /\ s[Len(s)] = " " THEN RStrip(SubSeq(s, 1, Len(s) - 1)) ELSE s

Strip(s) == RStrip(LStrip(s))

\* replace(' ', '')
NoSpaces(s) == SelectSeq(s, LAMBDA c : c # " ")

Lower(s) == [k \in 1..Len(s) |-> IF s[k] \in {"True", "TRUE"} THEN "true" ELSE s[k]]

\* `t in s`, and the ilike of the order search
Contains(s, t) == \E k \in 0..(Len(s) - Len(t)) : SubSeq(s, k + 1, k + Len(t)) = t

StartsWith(s, t) == Len(s) >= Len(t) /\ SubSeq(s, 1, Len(t)) = t

\* ------------------------------------------------------- partner: input
MaxRows == 2

Cols ==
  {"order-id", "is-business-order", "buyer-company-name", "buyer-vat-number",
   "invoice-business-legal-name", "invoice-business-tax-id", "buyer-tax-registration-id",
   "is-iba", "recipient-name", "ship-address-1", "ship-address-2", "ship-city",
   "ship-postal-code", "ship-country"}

\* a row of a file whose header has every column
TsvRow(order_id, business, vat, tax_id, reg_id, legal, company, country) ==
  [c \in Cols |->
     CASE c = "order-id" -> order_id
       [] c = "is-business-order" -> business
       [] c = "buyer-vat-number" -> vat
       [] c = "invoice-business-tax-id" -> tax_id
       [] c = "buyer-tax-registration-id" -> reg_id
       [] c = "invoice-business-legal-name" -> legal
       [] c = "buyer-company-name" -> company
       [] c = "is-iba" -> <<"false">>
       [] c = "recipient-name" -> <<"Rita">>
       [] c = "ship-address-1" -> <<"Street", " ", "1">>
       [] c = "ship-address-2" -> <<>>
       [] c = "ship-city" -> <<"Town">>
       [] c = "ship-postal-code" -> <<"1000">>
       [] c = "ship-country" -> country]

PlainRows ==
  { TsvRow(<<"A">>, <<"true">>, <<"V", "1">>, <<>>, <<>>, <<>>, <<>>, <<"DE">>),
    TsvRow(<<"A">>, <<"True">>, <<>>, <<>>, <<>>, <<"Acme">>, <<>>, <<>>) }

RowChoices ==
  PlainRows \cup
  { TsvRow(<<"A">>, <<"true">>, <<>>, <<>>, <<>>, <<>>, <<>>, <<"DE">>),
    TsvRow(<<"B">>, <<"true">>, <<" ">>, <<"V", "2">>, <<>>, <<>>, <<>>, <<"DE">>),
    TsvRow(<<"B">>, <<"true">>, <<>>, <<>>, <<"V", "1">>, <<>>, <<"Acme", " ">>, <<"XX">>),
    TsvRow(<<"C">>, <<"true">>, <<"V", "1">>, <<>>, <<>>, <<>>, <<>>, <<"DE">>),
    TsvRow(<<"A">>, <<"false">>, <<"V", "1">>, <<>>, <<>>, <<>>, <<>>, <<"DE">>),
    \* a row shorter than the header: DictReader fills the missing values with None
    [c \in Cols |-> IF c = "order-id" THEN <<"A">> ELSE None],
    \* a row of a file whose header lacks the other columns
    [c \in {"order-id", "is-business-order", "buyer-company-name"} |->
       CASE c = "order-id" -> <<"B">>
         [] c = "is-business-order" -> <<"true">>
         [] c = "buyer-company-name" -> <<"Acme">>] }

\* the input files: the first row is any of RowChoices
TsvFiles ==
  UNION { {f \in [1..n -> RowChoices] : \A k \in 2..n : f[k] \in PlainRows} : n \in 1..MaxRows }

\* row.get(col, '')
Get(row, col) == IF col \in DOMAIN row THEN row[col] ELSE <<>>

\* .lower() of None raises AttributeError
ParseRaises(row) ==
  \/ Get(row, "is-business-order") = None
  \/ /\ Lower(Get(row, "is-business-order")) = <<"true">>
     /\ Get(row, "is-iba") = None

IsBusiness(row) == Lower(Get(row, "is-business-order")) = <<"true">>

OrderData(row) ==
  [order_id |-> Get(row, "order-id"),
   buyer_company_name |-> Get(row, "buyer-company-name"),
   buyer_vat_number |-> Get(row, "buyer-vat-number"),
   invoice_business_legal_name |-> Get(row, "invoice-business-legal-name"),
   invoice_business_tax_id |-> Get(row, "invoice-business-tax-id"),
   buyer_tax_registration_id |-> Get(row, "buyer-tax-registration-id"),
   is_iba |-> Lower(Get(row, "is-iba")) = <<"true">>,
   recipient_name |-> Get(row, "recipient-name"),
   ship_address_1 |-> Get(row, "ship-address-1"),
   ship_address_2 |-> Get(row, "ship-address-2"),
   ship_city |-> Get(row, "ship-city"),
   ship_postal_code |-> Get(row, "ship-postal-code"),
   ship_country |-> Get(row, "ship-country")]

\* the loop over the reader: the business rows, in order
RECURSIVE ParseTsv(_)
ParseTsv(rows) ==
  IF rows = <<>> THEN <<>>
  ELSE (IF IsBusiness(Head(rows)) THEN <<OrderData(Head(rows))>> ELSE <<>>)
       \o ParseTsv(Tail(rows))

\* ------------------------------------------------------- partner: store
PartnerRecord(name, vat, is_company) ==
  [name |-> name, vat |-> vat, is_company |-> is_company,
   company_type |-> IF is_company THEN <<"company">> ELSE <<"person">>,
   street |-> <<>>, street2 |-> <<>>, city |-> <<>>, zip |-> <<>>, country_id |-> 0]

OrderRecord(name, partner_id) ==
  [name |-> name, partner_id |-> partner_id, partner_invoice_id |-> partner_id,
   partner_shipping_id |-> partner_id]

\* partner 1 is a generic Amazon partner, partner 2 is a customer; order 1 is an FBM
\* order of any partner or of none, order 2 is an order of the customer
PartnerStores ==
  { [partners |-> <<PartnerRecord(n, <<>>, FALSE), c>>,
     orders |-> <<OrderRecord(<<"FBM", "A">>, q), OrderRecord(<<"B">>, 2)>>] :
      n \in {<<"Amazon |", "EU">>, <<"Shop", "AMZ_B2C">>},
      c \in {PartnerRecord(<<"Bob">>, <<>>, FALSE),
             PartnerRecord(<<"Bob">>, <<"V", " ", "1">>, TRUE),
             PartnerRecord(<<"Bob">>, <<"V", " ", "1">>, FALSE),
             PartnerRecord(<<"Bob">>, <<"V", "9">>, FALSE)},
      q \in 0..2 }

\* the res.country table
CountryId(code) == IF code = <<"DE">> THEN 57 ELSE 0

ZeroStats ==
  [checked |-> 0, posted_fixed |-> 0, lines_fixed |-> 0, skipped |-> 0,
   reset_errors |-> 0, repost_errors |-> 0, errors |-> 0]

VARIABLES
  moves,          \* remote store: account.move records with their lines
  plan,           \* the invocations still to come: sequence of dry_run flags
  dry_run,        \* '--dry-run' in sys.argv
  uid,            \* result of common.authenticate
  pc,             \* position of main()
  pidx,           \* position of the loop over INVOICE_PREFIX_TO_COUNTRY.items()
  invoices,       \* invoices of the current prefix still to process (ids)
  invoice_lines,  \* snapshot of the current invoice's product lines
  lidx,           \* position of the line loop
  lines_fixed_this_invoice,
  stats,
  check,          \* result of the confirmatory search_read, <<>> before it
  start,          \* store at the start of the run
  calls,          \* remote calls made for each invoice in this run, with their answers
  outcome,        \* classification of each invoice in this run
  sleeps,         \* time.sleep calls of this run
  repost_failed,  \* invoices whose re-post was counted as a repost error in this run
  hist,           \* the finished runs
  faults,         \* answers other than a normal return given so far
  partners,       \* remote store: res.partner records, the id is the position
  orders,         \* remote store: sale.order records, the id is the position
  tsv,            \* the rows csv.DictReader yields for the input file
  b2b_orders,     \* the business rows kept by the parse
  ridx,           \* position of the loop over b2b_orders
  pstats,         \* stats of the partner script
  vat_number,
  company_name,
  pat,            \* position of the loop over order_name_patterns
  order,          \* the order found, <<>> before
  partner,        \* the partner read, <<>> before
  country_id,     \* result of get_country_id
  country_cache,  \* _country_cache
  new_partner_id,
  pstart,         \* partners and orders at the start of the run
  pcalls,         \* mutating calls issued in this run
  poutcome        \* classification of the rows processed in this run

tvars == <<moves, plan, dry_run, uid, pc, pidx, invoices, invoice_lines, lidx,
           lines_fixed_this_invoice, stats, check, start, calls, outcome,
           sleeps, repost_failed, hist, faults>>

pvars == <<partners, orders, tsv, b2b_orders, ridx, pstats, vat_number, company_name,
           pat, order, partner, country_id, country_cache, new_partner_id, pstart,
           pcalls, poutcome>>

vars == <<tvars, pvars>>

\* ------------------------------------------------------------ tax: helpers
RECURSIVE DescSeq(_)
DescSeq(S) ==
  IF S = {} THEN <<>>
  ELSE LET m == CHOOSE x \in S : \A y \in S : y <= x
       IN <<m>> \o DescSeq(S \ {m})

\* the domain of the account.move search_read
Selected(m, prefix) ==
  /\ m.prefix = prefix
  /\ m.state = "posted"
  /\ m.move_type = "out_invoice"
  /\ m.invoice_date >= DateFrom
  /\ m.invoice_date <= DateTo

SearchInvoices(prefix) == DescSeq({i \in DOMAIN moves : Selected(moves[i], prefix)})

\* account.move.line search_read: the product lines of an invoice
SearchLines(i) ==
  LET ls == moves[i].lines
      idx == SelectSeq([j \in 1..Len(ls) |-> j], LAMBDA j : ls[j].display_type = "product")
  IN [k \in 1..Len(idx) |-> [id |-> idx[k], tax_ids |-> ls[idx[k]].tax_ids]]

\* a check that takes any tax for the wrong one
NeedsFixAnyTax(line) == line.tax_ids # {}

NeedsFix(line) == BE_VAT_21 \in line.tax_ids

\* a count of all the lines read
LinesCounted(ls) == Len(ls)

LinesNeedingFix(ls) == Cardinality({k \in 1..Len(ls) : NeedsFix(ls[k])})

\* answers of the remote store
MayFail == faults < MaxFaults
ReadAnswers ==
  IF uid = NoUid THEN {"fault"} ELSE IF MayFail THEN {"ok", "fault"} ELSE {"ok"}
CallAnswers ==
  IF uid = NoUid THEN {"fault"}
  ELSE IF MayFail THEN {"ok", "ambiguous", "fault"} ELSE {"ok"}
Charge(a) == faults' = IF a = "ok" \/ uid = NoUid THEN faults ELSE faults + 1

\* an ambiguous reset taken as done without looking at the state read
ResetAssumed(chk) == TRUE

ResetConfirmed(chk) == chk # <<>> /\ chk[1].state = "draft"
\* an ambiguous re-post taken as done without looking at the state read
PostAssumed(chk) == TRUE

PostConfirmed(chk) == ~(chk = <<>> \/ chk[1].state # "posted")

\* a run that ignores --dry-run
LiveAlways(dr) == TRUE

\* `if not dry_run`
Live(dr) == ~dr

\* a pause that a dry run takes too
PauseAlsoDry(dr, st) == st.posted_fixed % PauseEvery = 0

ShouldPause(dr, st) == Live(dr) /\ st.posted_fixed % PauseEvery = 0

\* a remote call made for invoice i, and its answer
Log(i, op, ans, line) == [calls EXCEPT ![i] = Append(@, [op |-> op, ans |-> ans, line |-> line])]

Bump(st, key) == [st EXCEPT ![key] = @ + 1]

SetState(i, s) == [moves EXCEPT ![i].state = s]

\* `continue`, or the end of the loop body: the next invoice, or the next prefix
NextItem ==
  /\ invoices' = Tail(invoices)
  /\ pc' = IF Tail(invoices) # <<>> THEN "item" ELSE "search"
  /\ pidx' = IF Tail(invoices) # <<>> THEN pidx ELSE pidx + 1
  /\ lidx' = 0
  /\ invoice_lines' = <<>>
  /\ lines_fixed_this_invoice' = 0
  /\ check' = <<>>

\* an except clause that counts nothing
GeneralErrorSilent(i) ==
  /\ stats' = stats
  /\ outcome' = [outcome EXCEPT ![i] = "error"]
  /\ NextItem

\* an exception reaches `except Exception as error`
GeneralError(i) ==
  /\ stats' = Bump(stats, "errors")
  /\ outcome' = [outcome EXCEPT ![i] = "error"]
  /\ NextItem

RunRecord(done) ==
  [dry_run |-> dry_run, completed |-> done, stats |-> stats, outcome |-> outcome,
   repost_failed |-> repost_failed, calls |-> calls, start |-> start, end |-> moves]

\* an exception leaves main()
Abort ==
  /\ pc' = "aborted"
  /\ hist' = Append(hist, RunRecord(FALSE))
  /\ pidx' = 0
  /\ invoices' = <<>>

\* ------------------------------------------------------------ initial states
ZeroPStats ==
  [processed |-> 0, partner_updated |-> 0, partner_created |-> 0, order_not_found |-> 0,
   already_correct |-> 0, errors |-> 0]

PartnerLocalsInit ==
  /\ b2b_orders = <<>>
  /\ ridx = 0
  /\ pstats = ZeroPStats
  /\ vat_number = <<>>
  /\ company_name = <<>>
  /\ pat = 1
  /\ order = <<>>
  /\ partner = <<>>
  /\ country_id = 0
  /\ country_cache = {}
  /\ new_partner_id = 0
  /\ pstart = [partners |-> partners, orders |-> orders]
  /\ pcalls = <<>>
  /\ poutcome = <<>>

\* the partner script is not run
PartnerIdle ==
  /\ partners = <<>>
  /\ orders = <<>>
  /\ tsv = <<>>
  /\ PartnerLocalsInit

TaxIdleLocals ==
  /\ pidx = 0
  /\ invoices = <<>>
  /\ invoice_lines = <<>>
  /\ lidx = 0
  /\ lines_fixed_this_invoice = 0
  /\ stats = ZeroStats
  /\ check = <<>>
  /\ start = moves
  /\ calls = [i \in DOMAIN moves |-> <<>>]
  /\ outcome = [i \in DOMAIN moves |-> "none"]
  /\ sleeps = 0
  /\ repost_failed = {}

\* the tax script is not run
TaxIdle ==
  /\ moves = <<>>
  /\ TaxIdleLocals

SharedInit ==
  /\ dry_run = FALSE
  /\ uid = NoUid
  /\ hist = <<>>
  /\ faults = 0

TaxLocalsInit ==
  /\ SharedInit
  /\ pc = "start"
  /\ TaxIdleLocals

TaxInit ==
  /\ moves \in Stores
  /\ plan \in {<<TRUE>>, <<FALSE>>}
  /\ TaxLocalsInit
  /\ PartnerIdle

TaxTwiceInit ==
  /\ moves \in TwiceStores
  /\ plan \in {<<TRUE, FALSE>>, <<FALSE, FALSE>>}
  /\ TaxLocalsInit
  /\ PartnerIdle

\* one run over the long batch, in which the remote store gives at most one answer
\* other than a normal return
PacingInit ==
  /\ moves = PacingStore
  /\ plan \in {<<TRUE>>, <<FALSE>>}
  /\ dry_run = FALSE
  /\ uid = NoUid
  /\ hist = <<>>
  /\ faults = MaxFaults - 1
  /\ pc = "start"
  /\ TaxIdleLocals
  /\ PartnerIdle

\* ------------------------------------------------------------ tax: actions
\* main() is invoked: argv is read, the locals are fresh
Start ==
  /\ pc \in {"start", "done", "aborted"}
  /\ plan # <<>>
  /\ dry_run' = Head(plan)
  /\ plan' = Tail(plan)
  /\ pc' = "auth"
  /\ uid' = NoUid
  /\ pidx' = 0
  /\ invoices' = <<>>
  /\ stats' = ZeroStats
  /\ start' = moves
  /\ calls' = [i \in DOMAIN moves |-> <<>>]
  /\ outcome' = [i \in DOMAIN moves |-> "none"]
  /\ sleeps' = 0
  /\ repost_failed' = {}
  /\ UNCHANGED <<moves, invoice_lines, lidx, lines_fixed_this_invoice, check,
                 hist, faults>>
  /\ UNCHANGED pvars

\* common.authenticate: a uid, False when the credentials are refused, or a fault
Authenticate ==
  /\ pc = "auth"
  /\ \E a \in IF MayFail THEN {"uid", "denied", "fault"} ELSE {"uid"} :
       /\ faults' = IF a = "uid" THEN faults ELSE faults + 1
       /\ CASE a = "uid" ->
                 /\ uid' = "2"
                 /\ pc' = "search"
                 /\ pidx' = 1
                 /\ UNCHANGED <<hist, invoices>>
            [] a = "denied" ->
                 /\ uid' = NoUid
                 /\ pc' = "search"
                 /\ pidx' = 1
                 /\ UNCHANGED <<hist, invoices>>
            [] a = "fault" ->
                 /\ Abort
                 /\ UNCHANGED uid
  /\ UNCHANGED <<moves, plan, dry_run, invoice_lines, lidx, lines_fixed_this_invoice,
                 stats, check, start, calls, outcome, sleeps, repost_failed>>
  /\ UNCHANGED pvars

\* the account.move search_read of one prefix; its fault is caught nowhere
SearchPrefix ==
  /\ pc = "search"
  /\ pidx <= Len(PREFIXES)
  /\ IF ~(DOMESTIC_TAXES[INVOICE_PREFIX_TO_COUNTRY[PREFIXES[pidx]]] # 0)
     THEN /\ pidx' = pidx + 1
          /\ UNCHANGED <<pc, invoices, hist, faults>>
     ELSE \E a \in ReadAnswers :
            /\ Charge(a)
            /\ IF a = "fault"
               THEN Abort
               ELSE LET found == SearchInvoices(PREFIXES[pidx])
                    IN /\ invoices' = found
                       /\ pc' = IF found # <<>> THEN "item" ELSE "search"
                       /\ pidx' = IF found # <<>> THEN pidx ELSE pidx + 1
                       /\ UNCHANGED hist
  /\ UNCHANGED <<moves, plan, dry_run, uid, invoice_lines, lidx,
                 lines_fixed_this_invoice, stats, check, start, calls,
                 outcome, sleeps, repost_failed>>
  /\ UNCHANGED pvars

\* the final summary
Summary ==
  /\ pc = "search"
  /\ pidx > Len(PREFIXES)
  /\ pc' = "done"
  /\ pidx' = 0
  /\ hist' = Append(hist, RunRecord(TRUE))
  /\ UNCHANGED <<moves, plan, dry_run, uid, invoices, invoice_lines, lidx,
                 lines_fixed_this_invoice, stats, check, start, calls,
                 outcome, sleeps, repost_failed, faults>>
  /\ UNCHANGED pvars

\* top of the loop body: count the invoice, read its lines, look for the wrong tax
ReadLines ==
  /\ pc = "item"
  /\ LET i == Head(invoices)
         checked == Bump(stats, "checked")
     IN \E a \in ReadAnswers :
          /\ Charge(a)
          /\ calls' = Log(i, "lines", a, 0)
          /\ IF a = "fault"
             THEN /\ stats' = Bump(checked, "errors")
                  /\ outcome' = [outcome EXCEPT ![i] = "error"]
                  /\ NextItem
             ELSE LET ls == SearchLines(i)
                  IN IF LinesNeedingFix(ls) = 0
                     THEN /\ stats' = Bump(checked, "skipped")
                          /\ outcome' = [outcome EXCEPT ![i] = "skipped"]
                          /\ NextItem
                     ELSE /\ stats' = checked
                          /\ invoice_lines' = ls
                          /\ pc' = IF Live(dry_run) THEN "reset" ELSE "fix"
                          /\ lidx' = IF Live(dry_run) THEN 0 ELSE 1
                          /\ UNCHANGED <<outcome, invoices, pidx,
                                         lines_fixed_this_invoice, check>>
  /\ UNCHANGED <<moves, plan, dry_run, uid, start, sleeps, repost_failed, hist>>
  /\ UNCHANGED pvars

\* button_draft
ButtonDraft ==
  /\ pc = "reset"
  /\ LET i == Head(invoices)
     IN \E a \in CallAnswers :
             /\ Charge(a)
             /\ calls' = Log(i, "button_draft", a, 0)
             /\ CASE a = "ok" ->
                       /\ moves' = SetState(i, "draft")
                       /\ pc' = "fix"
                       /\ lidx' = 1
                       /\ UNCHANGED <<stats, outcome, invoices, pidx, invoice_lines,
                                      lines_fixed_this_invoice, check>>
                  [] a = "ambiguous" ->
                       /\ moves' \in {moves, SetState(i, "draft")}
                       /\ pc' = "reset_check"
                       /\ UNCHANGED <<stats, outcome, invoices, pidx, lidx, invoice_lines,
                                      lines_fixed_this_invoice, check>>
                  [] a = "fault" ->
                       /\ stats' = Bump(stats, "reset_errors")
                       /\ outcome' = [outcome EXCEPT ![i] = "reset_error"]
                       /\ NextItem
                       /\ UNCHANGED moves
  /\ UNCHANGED <<plan, dry_run, uid, start, sleeps, repost_failed, hist>>
  /\ UNCHANGED pvars

\* the confirmatory read after an ambiguous button_draft
ResetCheck ==
  /\ pc = "reset_check"
  /\ LET i == Head(invoices)
     IN \E a \in ReadAnswers :
          /\ Charge(a)
          /\ calls' = Log(i, "state", IF a = "fault" THEN a ELSE moves[i].state, 0)
          /\ IF a = "fault"
             THEN GeneralError(i)
             ELSE LET chk == <<[state |-> moves[i].state]>>
                  IN IF ResetConfirmed(chk)
                     THEN /\ check' = chk
                          /\ pc' = "fix"
                          /\ lidx' = 1
                          /\ UNCHANGED <<stats, outcome, invoices, pidx, invoice_lines,
                                         lines_fixed_this_invoice>>
                     ELSE /\ stats' = Bump(stats, "reset_errors")
                          /\ outcome' = [outcome EXCEPT ![i] = "reset_error"]
                          /\ NextItem
  /\ UNCHANGED <<moves, plan, dry_run, uid, start, sleeps, repost_failed, hist>>
  /\ UNCHANGED pvars

\* a write that names every line of the invoice
SetTaxIdsAllLines(i, j, ids) ==
  [moves EXCEPT ![i].lines = [k \in DOMAIN @ |-> [@[k] EXCEPT !.tax_ids = ids]]]

SetTaxIds(i, j, ids) == [moves EXCEPT ![i].lines[j].tax_ids = ids]

\* a (4, correct_tax_id) command: add to the set
NewTaxIdsAdd(old, correct_tax_id) == old \cup {correct_tax_id}

\* the (6, 0, [correct_tax_id]) command: replace the whole set
NewTaxIds(old, correct_tax_id) == {correct_tax_id}

\* one turn of the loop that fixes the lines carrying the wrong tax
FixLine ==
  /\ pc = "fix"
  /\ lidx <= Len(invoice_lines)
  /\ LET i == Head(invoices)
         line == invoice_lines[lidx]
         correct_tax_id == DOMESTIC_TAXES[INVOICE_PREFIX_TO_COUNTRY[PREFIXES[pidx]]]
         written == SetTaxIds(i, line.id, NewTaxIds(line.tax_ids, correct_tax_id))
         counted ==
           /\ lines_fixed_this_invoice' = lines_fixed_this_invoice + 1
           /\ stats' = Bump(stats, "lines_fixed")
           /\ lidx' = lidx + 1
           /\ UNCHANGED <<pc, invoices, pidx, outcome, invoice_lines, check>>
     IN IF ~NeedsFix(line)
        THEN /\ lidx' = lidx + 1
             /\ UNCHANGED <<moves, pc, invoices, pidx, outcome, stats, calls,
                            lines_fixed_this_invoice, invoice_lines, check, faults>>
        ELSE IF ~Live(dry_run)
        THEN /\ counted
             /\ UNCHANGED <<moves, calls, faults>>
        ELSE \E a \in CallAnswers :
                  /\ Charge(a)
                  /\ calls' = Log(i, "write", a, line.id)
                  /\ CASE a = "ok" ->
                            /\ moves' = written
                                 /\ counted
                       [] a = "ambiguous" ->
                            /\ moves' \in {moves, written}
                            /\ GeneralError(i)
                       [] a = "fault" ->
                            /\ UNCHANGED moves
                            /\ GeneralError(i)
  /\ UNCHANGED <<plan, dry_run, uid, start, sleeps, repost_failed, hist>>
  /\ UNCHANGED pvars

\* action_post
ActionPost ==
  /\ pc = "fix"
  /\ lidx > Len(invoice_lines)
  /\ Live(dry_run)
  /\ LET i == Head(invoices)
     IN \E a \in CallAnswers :
             /\ Charge(a)
             /\ calls' = Log(i, "action_post", a, 0)
             /\ CASE a = "ok" ->
                       /\ moves' = SetState(i, "posted")
                       /\ pc' = "tally"
                       /\ UNCHANGED <<stats, repost_failed>>
                  [] a = "ambiguous" ->
                       /\ moves' \in {moves, SetState(i, "posted")}
                       /\ pc' = "post_check"
                       /\ UNCHANGED <<stats, repost_failed>>
                  [] a = "fault" ->
                       /\ stats' = Bump(stats, "repost_errors")
                       /\ repost_failed' = repost_failed \cup {i}
                       /\ pc' = "tally"
                       /\ UNCHANGED moves
  /\ UNCHANGED <<plan, dry_run, uid, pidx, invoices, invoice_lines, lidx,
                 lines_fixed_this_invoice, check, start, outcome, sleeps, hist>>
  /\ UNCHANGED pvars

\* the confirmatory read after an ambiguous action_post
PostCheck ==
  /\ pc = "post_check"
  /\ LET i == Head(invoices)
     IN \E a \in ReadAnswers :
          /\ Charge(a)
          /\ calls' = Log(i, "state", IF a = "fault" THEN a ELSE moves[i].state, 0)
          /\ IF a = "fault"
             THEN /\ GeneralError(i)
                  /\ UNCHANGED repost_failed
             ELSE LET chk == <<[state |-> moves[i].state]>>
                  IN /\ check' = chk
                     /\ pc' = "tally"
                     /\ IF PostConfirmed(chk)
                        THEN UNCHANGED <<stats, repost_failed>>
                        ELSE /\ stats' = Bump(stats, "repost_errors")
                             /\ repost_failed' = repost_failed \cup {i}
                     /\ UNCHANGED <<outcome, invoices, pidx, lidx, invoice_lines,
                                    lines_fixed_this_invoice>>
  /\ UNCHANGED <<moves, plan, dry_run, uid, start, sleeps, hist>>
  /\ UNCHANGED pvars

\* the count of the invoice as fixed, and the rate limiting
Tally ==
  /\ \/ pc = "tally"
     \/ pc = "fix" /\ lidx > Len(invoice_lines) /\ ~Live(dry_run)
  /\ LET i == Head(invoices)
         st == IF lines_fixed_this_invoice > 0 THEN Bump(stats, "posted_fixed") ELSE stats
     IN /\ stats' = st
        /\ outcome' = [outcome EXCEPT ![i] = IF lines_fixed_this_invoice > 0
                                              THEN "fixed" ELSE @]
        /\ sleeps' = IF ShouldPause(dry_run, st) THEN sleeps + 1 ELSE sleeps
  /\ NextItem
  /\ UNCHANGED <<moves, plan, dry_run, uid, start, calls, repost_failed, hist, faults>>
  /\ UNCHANGED pvars

TaxNext ==
  \/ Start
  \/ Authenticate
  \/ SearchPrefix
  \/ Summary
  \/ ReadLines
  \/ ButtonDraft
  \/ ResetCheck
  \/ FixLine
  \/ ActionPost
  \/ PostCheck
  \/ Tally

\* -------------------------------------------------- partner: helpers
tonly == <<moves, pidx, invoices, invoice_lines, lidx, lines_fixed_this_invoice, stats,
           check, start, calls, outcome, sleeps, repost_failed>>

\* the candidate VAT number and company name of a row
VatNumber(od) ==
  Strip(Or(Or(Or(od.buyer_vat_number, od.invoice_business_tax_id),
              od.buyer_tax_registration_id), <<>>))

CompanyName(od) ==
  Strip(Or(Or(od.invoice_business_legal_name, od.buyer_company_name), <<>>))

\* the two patterns in the other order
OrderNamePatternsRawFirst(amazon_order_id) == << amazon_order_id, <<"FBM">> \o amazon_order_id >>

OrderNamePatterns(amazon_order_id) == << <<"FBM">> \o amazon_order_id, amazon_order_id >>

\* the sale.order records a pattern matches
SearchOrdersIn(os, pattern) == {o \in DOMAIN os : Contains(os[o].name, pattern)}

SearchOrders(pattern) == SearchOrdersIn(orders, pattern)

\* a test that knows only one of the three markers
IsGenericB2COnly(name) == Contains(name, <<"AMZ_B2C">>)

IsGeneric(name) ==
  \/ Contains(name, <<"AMZ_B2C">>)
  \/ Contains(name, <<"AMZ_B2B">>)
  \/ StartsWith(name, <<"Amazon |">>)

\* a test that looks at the VAT number only
HasVatOnly(vn, cn) == Truthy(vn)

HasB2BData(vn, cn) == Truthy(vn) \/ Truthy(cn)

\* a comparison that never matches
VatNeverMatches(p, vn) == FALSE

VatMatches(p, vn) == Truthy(p.vat) /\ Truthy(vn) /\ NoSpaces(p.vat) = NoSpaces(vn)

\* update_vals that takes the VAT number of the row whatever the partner has
UpdateValsAnyVat(p, vn, cn) ==
  (IF Truthy(vn) THEN "vat" :> vn ELSE <<>>)
  @@ (IF Truthy(cn) /\ ~p.is_company
      THEN ("is_company" :> TRUE) @@ ("company_type" :> <<"company">>)
      ELSE <<>>)

\* update_vals that never sets the company flag
UpdateValsVatOnly(p, vn, cn) ==
  IF Truthy(vn) /\ ~Truthy(p.vat) THEN "vat" :> vn ELSE <<>>

UpdateVals(p, vn, cn) ==
  (IF Truthy(vn) /\ ~Truthy(p.vat) THEN "vat" :> vn ELSE <<>>)
  @@ (IF Truthy(cn) /\ ~p.is_company
      THEN ("is_company" :> TRUE) @@ ("company_type" :> <<"company">>)
      ELSE <<>>)

NewPartnerVals(od, vn, cn, cid) ==
  [name |-> Or(cn, od.recipient_name), vat |-> IF Truthy(vn) THEN vn ELSE <<>>,
   is_company |-> TRUE, company_type |-> <<"company">>,
   street |-> od.ship_address_1, street2 |-> Or(od.ship_address_2, <<>>),
   city |-> od.ship_city, zip |-> od.ship_postal_code, country_id |-> cid]

\* get_country_id asks the store unless the code is empty or cached
NeedsCountryRead(code) == Truthy(code) /\ code \notin country_cache

\* a remote call made for the current row, its answer, the record it names and the
\* fields it sends
PLog(op, ans, id, fields) ==
  Append(pcalls, [row |-> ridx, op |-> op, ans |-> ans, id |-> id, fields |-> fields])

\* `continue`, or the end of the loop body
NextRow ==
  /\ ridx' = ridx + 1
  /\ pc' = IF ridx < Len(b2b_orders) THEN "p_find" ELSE "p_summary"
  /\ pat' = 1
  /\ order' = <<>>
  /\ partner' = <<>>
  /\ vat_number' = <<>>
  /\ company_name' = <<>>
  /\ country_id' = 0
  /\ new_partner_id' = 0

\* a row that ends without being counted under its outcome
ClassifyUncounted(st, key, label) ==
  /\ pstats' = st
  /\ poutcome' = Append(poutcome, label)
  /\ NextRow

\* the row is counted under one outcome
Classify(st, key, label) ==
  /\ pstats' = Bump(st, key)
  /\ poutcome' = Append(poutcome, label)
  /\ NextRow

PRunRecord(done) ==
  [dry_run |-> dry_run, completed |-> done, stats |-> pstats, outcome |-> poutcome,
   calls |-> pcalls, start |-> pstart, end |-> [partners |-> partners, orders |-> orders]]

\* an order without a partner that is reported as an order not found
NoPartnerAsNotFound(st) == Classify(st, "order_not_found", "order_not_found")

\* `if not partner_id`: the row is an error
NoPartner(st) == Classify(st, "errors", "error")

\* -------------------------------------------------- partner: actions
PartnerInit ==
  /\ \E st \in PartnerStores : partners = st.partners /\ orders = st.orders
  /\ tsv \in TsvFiles
  /\ plan \in {<<TRUE>>, <<FALSE>>}
  /\ pc = "p_start"
  /\ SharedInit
  /\ PartnerLocalsInit
  /\ TaxIdle

PartnerTwiceInit ==
  /\ \E st \in PartnerStores : partners = st.partners /\ orders = st.orders
  /\ tsv \in TsvFiles
  /\ plan = <<TRUE, FALSE>>
  /\ pc = "p_start"
  /\ SharedInit
  /\ PartnerLocalsInit
  /\ TaxIdle

\* main() is invoked: argv is read, the locals and _country_cache are fresh
PStart ==
  /\ pc \in {"p_start", "p_done", "p_aborted", "p_parse_error"}
  /\ plan # <<>>
  /\ dry_run' = Head(plan)
  /\ plan' = Tail(plan)
  /\ pc' = "p_auth"
  /\ uid' = NoUid
  /\ b2b_orders' = <<>>
  /\ ridx' = 0
  /\ pstats' = ZeroPStats
  /\ country_cache' = {}
  /\ pstart' = [partners |-> partners, orders |-> orders]
  /\ pcalls' = <<>>
  /\ poutcome' = <<>>
  /\ UNCHANGED <<partners, orders, tsv, vat_number, company_name, pat, order, partner,
                 country_id, new_partner_id, hist, faults>>
  /\ UNCHANGED tonly

\* common.authenticate: a uid, False when the credentials are refused, or a fault
PAuthenticate ==
  /\ pc = "p_auth"
  /\ \E a \in IF MayFail THEN {"uid", "denied", "fault"} ELSE {"uid"} :
       /\ faults' = IF a = "uid" THEN faults ELSE faults + 1
       /\ uid' = IF a = "uid" THEN "2" ELSE NoUid
       /\ IF a = "fault"
          THEN /\ pc' = "p_aborted"
               /\ hist' = Append(hist, PRunRecord(FALSE))
          ELSE /\ pc' = "p_tsv"
               /\ UNCHANGED hist
  /\ UNCHANGED <<plan, dry_run>>
  /\ UNCHANGED pvars
  /\ UNCHANGED tonly

\* the parse of the input file
ReadTsv ==
  /\ pc = "p_tsv"
  /\ IF \E k \in 1..Len(tsv) : ParseRaises(tsv[k])
     THEN /\ pc' = "p_parse_error"
          /\ hist' = Append(hist, PRunRecord(FALSE))
          /\ UNCHANGED <<b2b_orders, ridx>>
     ELSE /\ b2b_orders' = ParseTsv(tsv)
          /\ ridx' = 1
          /\ pc' = IF ParseTsv(tsv) # <<>> THEN "p_find" ELSE "p_summary"
          /\ UNCHANGED hist
  /\ UNCHANGED <<plan, dry_run, uid, faults, partners, orders, tsv, pstats, vat_number,
                 company_name, pat, order, partner, country_id, country_cache,
                 new_partner_id, pstart, pcalls, poutcome>>
  /\ UNCHANGED tonly

\* one sale.order search_read of the loop over order_name_patterns; the first one
\* follows the count of the row and the choice of its VAT number and company name
FindOrder ==
  /\ pc = "p_find"
  /\ LET od == b2b_orders[ridx]
         st == IF pat = 1 THEN Bump(pstats, "processed") ELSE pstats
         found == SearchOrders(OrderNamePatterns(od.order_id)[pat])
         goes_on ==
           /\ pstats' = st
           /\ vat_number' = VatNumber(od)
           /\ company_name' = CompanyName(od)
           /\ UNCHANGED <<ridx, partner, country_id, new_partner_id, poutcome>>
     IN \E a \in ReadAnswers :
          /\ Charge(a)
          /\ pcalls' = PLog("order_search", a, 0, {})
          /\ IF a = "fault"
             THEN Classify(st, "errors", "error")
             ELSE IF found = {}
             THEN IF pat < Len(OrderNamePatterns(od.order_id))
                  THEN /\ pat' = pat + 1
                       /\ goes_on
                       /\ UNCHANGED <<pc, order>>
                  ELSE Classify(st, "order_not_found", "order_not_found")
             ELSE \E o \in found :
                    IF orders[o].partner_id = 0
                    THEN NoPartner(st)
                    ELSE /\ order' = [id |-> o, name |-> orders[o].name,
                                      partner_id |-> orders[o].partner_id]
                         /\ pc' = "p_partner"
                         /\ goes_on
                         /\ UNCHANGED pat
  /\ UNCHANGED <<plan, dry_run, uid, hist, partners, orders, tsv, b2b_orders,
                 country_cache, pstart>>
  /\ UNCHANGED tonly

\* the row is counted as created
CountCreated == Classify(pstats, "partner_created", "created")

\* the res.partner search_read, and every decision that needs no further call
ReadPartner ==
  /\ pc = "p_partner"
  /\ LET od == b2b_orders[ridx]
         partner_id == order.partner_id
         p == [id |-> partner_id] @@ partners[partner_id]
         update_vals == UpdateVals(p, vat_number, company_name)
         goes_on(to) ==
           /\ pc' = to
           /\ partner' = p
           /\ UNCHANGED <<ridx, pstats, poutcome, vat_number, company_name, pat, order,
                          new_partner_id>>
     IN \E a \in ReadAnswers :
          /\ Charge(a)
          /\ pcalls' = PLog("partner_read", a, partner_id, {})
          /\ IF a = "fault"
             THEN Classify(pstats, "errors", "error") /\ UNCHANGED country_cache
             ELSE IF IsGeneric(p.name)
             THEN IF HasB2BData(vat_number, company_name)
                  THEN IF NeedsCountryRead(od.ship_country)
                       THEN goes_on("p_country") /\ UNCHANGED <<country_id, country_cache>>
                       ELSE IF Live(dry_run)
                       THEN /\ goes_on("p_create")
                            /\ country_id' = IF Truthy(od.ship_country)
                                             THEN CountryId(od.ship_country) ELSE 0
                            /\ UNCHANGED country_cache
                       ELSE CountCreated /\ UNCHANGED country_cache
                  ELSE Classify(pstats, "already_correct", "already_correct")
                       /\ UNCHANGED country_cache
             ELSE IF VatMatches(p, vat_number)
             THEN Classify(pstats, "already_correct", "already_correct")
                  /\ UNCHANGED country_cache
             ELSE IF DOMAIN update_vals = {}
             THEN Classify(pstats, "already_correct", "already_correct")
                  /\ UNCHANGED country_cache
             ELSE IF Live(dry_run)
             THEN goes_on("p_write") /\ UNCHANGED <<country_id, country_cache>>
             ELSE Classify(pstats, "partner_updated", "updated") /\ UNCHANGED country_cache
  /\ UNCHANGED <<plan, dry_run, uid, hist, partners, orders, tsv, b2b_orders, pstart>>
  /\ UNCHANGED tonly

\* the res.country search_read of get_country_id
GetCountry ==
  /\ pc = "p_country"
  /\ LET od == b2b_orders[ridx]
         cid == CountryId(od.ship_country)
     IN \E a \in ReadAnswers :
          /\ Charge(a)
          /\ pcalls' = PLog("country_read", a, 0, {})
          /\ IF a = "fault"
             THEN Classify(pstats, "errors", "error") /\ UNCHANGED country_cache
             ELSE /\ country_cache' = IF cid # 0 THEN country_cache \cup {od.ship_country}
                                      ELSE country_cache
                  /\ IF Live(dry_run)
                     THEN /\ pc' = "p_create"
                          /\ country_id' = cid
                          /\ UNCHANGED <<ridx, pstats, poutcome, vat_number, company_name,
                                         pat, order, partner, new_partner_id>>
                     ELSE CountCreated
  /\ UNCHANGED <<plan, dry_run, uid, hist, partners, orders, tsv, b2b_orders, pstart>>
  /\ UNCHANGED tonly

\* the keys of new_partner_vals: vat is there only with a VAT number
SentFields(vals) == DOMAIN vals \ (IF vals.vat = <<>> THEN {"vat"} ELSE {})

\* res.partner create
CreatePartner ==
  /\ pc = "p_create"
  /\ LET od == b2b_orders[ridx]
         vals == NewPartnerVals(od, vat_number, company_name, country_id)
     IN \E a \in CallAnswers :
          /\ Charge(a)
          /\ CASE a = "ok" ->
                    /\ pcalls' = PLog("create", a, Len(partners) + 1, SentFields(vals))
                    /\ partners' = Append(partners, vals)
                    /\ new_partner_id' = Len(partners) + 1
                    /\ pc' = "p_order_write"
                    /\ UNCHANGED <<ridx, pstats, poutcome, vat_number, company_name, pat,
                                   order, partner, country_id>>
               [] a = "ambiguous" ->
                    /\ pcalls' = PLog("create", a, 0, SentFields(vals))
                    /\ partners' \in {partners, Append(partners, vals)}
                    /\ Classify(pstats, "errors", "error")
               [] a = "fault" ->
                    /\ pcalls' = PLog("create", a, 0, SentFields(vals))
                    /\ UNCHANGED partners
                    /\ Classify(pstats, "errors", "error")
  /\ UNCHANGED <<plan, dry_run, uid, hist, orders, tsv, b2b_orders, country_cache, pstart>>
  /\ UNCHANGED tonly

\* sale.order write of the three partner fields
WriteOrder ==
  /\ pc = "p_order_write"
  /\ LET written == [orders EXCEPT ![order.id].partner_id = new_partner_id,
                                   ![order.id].partner_invoice_id = new_partner_id,
                                   ![order.id].partner_shipping_id = new_partner_id]
     IN \E a \in CallAnswers :
          /\ Charge(a)
          /\ pcalls' = PLog("order_write", a, order.id, {"partner_id", "partner_invoice_id", "partner_shipping_id"})
          /\ CASE a = "ok" ->
                    /\ orders' = written
                    /\ CountCreated
               [] a = "ambiguous" ->
                    /\ orders' \in {orders, written}
                    /\ Classify(pstats, "errors", "error")
               [] a = "fault" ->
                    /\ UNCHANGED orders
                    /\ Classify(pstats, "errors", "error")
  /\ UNCHANGED <<plan, dry_run, uid, hist, partners, tsv, b2b_orders, country_cache,
                 pstart>>
  /\ UNCHANGED tonly

\* res.partner write of update_vals
WritePartner ==
  /\ pc = "p_write"
  /\ LET update_vals == UpdateVals(partner, vat_number, company_name)
         written == [partners EXCEPT ![partner.id] =
                       [f \in DOMAIN @ |-> IF f \in DOMAIN update_vals
                                           THEN update_vals[f] ELSE @[f]]]
     IN \E a \in CallAnswers :
          /\ Charge(a)
          /\ pcalls' = PLog("partner_write", a, partner.id, DOMAIN update_vals)
          /\ CASE a = "ok" ->
                    /\ partners' = written
                    /\ Classify(pstats, "partner_updated", "updated")
               [] a = "ambiguous" ->
                    /\ partners' \in {partners, written}
                    /\ Classify(pstats, "errors", "error")
               [] a = "fault" ->
                    /\ UNCHANGED partners
                    /\ Classify(pstats, "errors", "error")
  /\ UNCHANGED <<plan, dry_run, uid, hist, orders, tsv, b2b_orders, country_cache, pstart>>
  /\ UNCHANGED tonly

\* the final summary
PSummary ==
  /\ pc = "p_summary"
  /\ pc' = "p_done"
  /\ hist' = Append(hist, PRunRecord(TRUE))
  /\ UNCHANGED <<plan, dry_run, uid, faults>>
  /\ UNCHANGED pvars
  /\ UNCHANGED tonly

PartnerNext ==
  \/ PStart
  \/ PAuthenticate
  \/ ReadTsv
  \/ FindOrder
  \/ ReadPartner
  \/ GetCountry
  \/ CreatePartner
  \/ WriteOrder
  \/ WritePartner
  \/ PSummary

\* ------------------------------------------------------ specifications
\* one run of either script
Init == TaxInit \/ PartnerInit

Next == TaxNext \/ PartnerNext

Spec == Init /\ [][Next]_vars

\* one run of the tax script
SpecTax == TaxInit /\ [][TaxNext]_vars

\* one run of the partner script
SpecPartner == PartnerInit /\ [][PartnerNext]_vars

\* two runs of a script in sequence, with no other writer in between
SpecTaxTwice == TaxTwiceInit /\ [][TaxNext]_vars

SpecPartnerTwice == PartnerTwiceInit /\ [][PartnerNext]_vars

\* one run of the tax script over the long batch
SpecTaxPacing == PacingInit /\ [][TaxNext]_vars

\* ------------------------------------------------------- tax: properties
Mutating == {"button_draft", "write", "action_post"}

MutatingCalls(log) == SelectSeq(log, LAMBDA c : c.op \in Mutating)

\* some line of the invoice carries the wrong tax
Wrong(m) == \E j \in 1..Len(m.lines) : BE_VAT_21 \in m.lines[j].tax_ids

WrongLines(m) ==
  {j \in 1..Len(m.lines) : m.lines[j].display_type = "product"
                          /\ BE_VAT_21 \in m.lines[j].tax_ids}

\* the invoices the searches of a run select from store st
SelectedIn(st) == {i \in DOMAIN st : \E k \in 1..Len(PREFIXES) : Selected(st[i], PREFIXES[k])}

LiveRunDone == pc = "done" /\ ~dry_run

\* C2: after a live run every invoice counted as fixed carries no wrong tax and is
\* posted, or is in draft when its re-post failed; and no invoice the run changed
\* is left with a wrong tax, posted or draft.
C2_FixedInvoicesEndCorrect ==
  LiveRunDone =>
    \A i \in Inv :
      /\ outcome[i] = "fixed" =>
           /\ ~Wrong(moves[i])
           /\ moves[i].state = IF i \in repost_failed THEN "draft" ELSE "posted"
      /\ moves[i] # start[i] => ~Wrong(moves[i])

\* C3: an invoice the run selects and none of whose product lines carries the wrong
\* tax gets no mutating call and keeps its state and lines; once its line read has
\* answered it is counted as skipped, and it is never counted as fixed: skipped and
\* posted_fixed count exactly the invoices so classified, and lines_fixed never
\* exceeds the wrong lines of the other invoices.
C3_CleanInvoiceSkipped ==
  /\ \A i \in SelectedIn(start) :
       WrongLines(start[i]) = {} =>
         /\ MutatingCalls(calls[i]) = <<>>
         /\ moves[i] = start[i]
         /\ outcome[i] \in {"none", "skipped", "error"}
         /\ (calls[i] # <<>> /\ calls[i][1].ans = "ok") => outcome[i] = "skipped"
  /\ stats.skipped = Cardinality({i \in Inv : outcome[i] = "skipped"})
  /\ stats.posted_fixed = Cardinality({i \in Inv : outcome[i] = "fixed"})
  /\ stats.lines_fixed <= Cardinality({ij \in (DOMAIN start) \X (1..(MaxLines + 1)) :
                                         ij[2] \in WrongLines(start[ij[1]])})

C3_Witness ==
  /\ LiveRunDone
  /\ \E i, j \in Inv : /\ outcome[i] = "skipped" /\ WrongLines(start[i]) = {}
                       /\ outcome[j] = "fixed"

\* C9: an ambiguous answer to button_draft or action_post is followed by the read of
\* the invoice state before anything is decided; the reset goes on to the fix
\* exactly when the state read is draft and is a reset error when it is not, the
\* re-post is a repost error exactly when the state read is not posted.
C9_AmbiguousResolvedByRead ==
  \A i \in Inv : \A k \in 1..Len(calls[i]) :
    LET c == calls[i][k]
        last == k = Len(calls[i])
        current == invoices # <<>> /\ Head(invoices) = i
    IN (c.op \in {"button_draft", "action_post"} /\ c.ans = "ambiguous") =>
         IF last
         THEN /\ current
              /\ pc = IF c.op = "button_draft" THEN "reset_check" ELSE "post_check"
              /\ outcome[i] = "none"
              /\ i \notin repost_failed
         ELSE LET r == calls[i][k + 1]
              IN /\ r.op = "state"
                 /\ r.ans = "fault" => (k + 1 = Len(calls[i]) /\ outcome[i] = "error")
                 /\ (c.op = "button_draft" /\ r.ans = "draft") =>
                      /\ outcome[i] # "reset_error"
                      /\ k + 1 < Len(calls[i]) \/ (current /\ pc = "fix")
                 /\ (c.op = "button_draft" /\ r.ans = "posted") =>
                      (k + 1 = Len(calls[i]) /\ outcome[i] = "reset_error")
                 /\ (c.op = "action_post" /\ r.ans = "posted") =>
                      (i \notin repost_failed /\ outcome[i] \in {"none", "fixed"})
                 /\ (c.op = "action_post" /\ r.ans = "draft") =>
                      (i \in repost_failed /\ outcome[i] \in {"none", "fixed"})

C9_Witness ==
  \E i \in Inv :
    /\ outcome[i] = "fixed"
    /\ i \notin repost_failed
    /\ \E k, l \in 1..Len(calls[i]) :
         /\ calls[i][k].op = "button_draft" /\ calls[i][k].ans = "ambiguous"
         /\ calls[i][l].op = "action_post" /\ calls[i][l].ans = "ambiguous"

\* C10: no fault of a remote call made after authentication ends the run: a run of
\* either script aborts only when authentication gave no uid, a finished tax run has
\* counted every invoice its searches select and a finished partner run has counted
\* and classified every business row.
C10_FaultNeverAborts ==
  /\ pc = "aborted" => uid = NoUid
  /\ pc = "done" => stats.checked = Cardinality(SelectedIn(start))
  /\ pc = "p_aborted" => uid = NoUid
  /\ pc = "p_done" => /\ pstats.processed = Len(b2b_orders)
                      /\ Len(poutcome) = Len(b2b_orders)

\* the two runs of a behaviour with two runs
TwoRuns(first_dry) ==
  /\ pc \in {"done", "aborted"}
  /\ Len(hist) = 2
  /\ hist[1].dry_run = first_dry
  /\ ~hist[2].dry_run

ReadsAnswered(log) ==
  \A i \in Inv : \A k \in 1..Len(log[i]) :
    log[i][k].op \in {"lines", "state"} => log[i][k].ans # "fault"

SameClassification == hist[1].stats = hist[2].stats /\ hist[1].outcome = hist[2].outcome

PMutating == {"create", "order_write", "partner_write"}

\* the generic partners, as the naming convention has them
GenericName(name) ==
  \/ \E k \in 1..Len(name) : name[k] \in {"AMZ_B2C", "AMZ_B2B"}
  \/ (name # <<>> /\ name[1] = "Amazon |")

PartnerLiveRunDone == pc = "p_done" /\ ~dry_run

\* C1: in a dry run neither script issues a mutating call - no button_draft, line write
\* or action_post, no partner create, order write or partner write - and the store
\* stays equal to the snapshot taken when the run started, up to and after its end.
C1_DryRunNeverMutates ==
  /\ dry_run =>
       /\ moves = start
       /\ \A i \in DOMAIN calls : MutatingCalls(calls[i]) = <<>>
       /\ partners = pstart.partners
       /\ orders = pstart.orders
       /\ \A k \in 1..Len(pcalls) : pcalls[k].op \notin PMutating
  /\ \A k \in 1..Len(hist) : hist[k].dry_run => hist[k].end = hist[k].start

C1_Witness ==
  /\ dry_run
  /\ pc = "p_done"
  /\ pstats.partner_created > 0
  /\ pstats.partner_updated > 0

\* C5: a partner whose name marks it as generic is never the target of a partner
\* write and its record stays as it was when the run started, whatever VAT number or
\* company name the rows carry.
C5_GenericPartnerNeverWritten ==
  \A p \in DOMAIN pstart.partners :
    GenericName(pstart.partners[p].name) =>
      /\ partners[p] = pstart.partners[p]
      /\ \A k \in 1..Len(pcalls) :
           ~(pcalls[k].op = "partner_write" /\ pcalls[k].id = p)

C5_Witness ==
  /\ PartnerLiveRunDone
  /\ \E k \in 1..Len(pcalls) :
       /\ pcalls[k].op = "partner_read" /\ pcalls[k].ans = "ok"
       /\ GenericName(pstart.partners[pcalls[k].id].name)
       /\ Truthy(VatNumber(b2b_orders[pcalls[k].row]))
       /\ poutcome[pcalls[k].row] = "created"

\* C6: a partner that is not generic and has a VAT number when the run starts keeps
\* that VAT number, and no partner write of the run sends it a vat field, also when a
\* row carries another VAT number and when two rows name the partner.
C6_ExistingVatNeverOverwritten ==
  \A p \in DOMAIN pstart.partners :
    (~GenericName(pstart.partners[p].name) /\ pstart.partners[p].vat # <<>>) =>
      /\ partners[p].vat = pstart.partners[p].vat
      /\ \A k \in 1..Len(pcalls) :
           (pcalls[k].op = "partner_write" /\ pcalls[k].id = p) =>
             "vat" \notin pcalls[k].fields

C6_Witness ==
  /\ PartnerLiveRunDone
  /\ \E k, l \in 1..Len(pcalls) :
       /\ k < l
       /\ pcalls[k].op = "partner_write" /\ pcalls[k].ans = "ok"
       /\ pcalls[l].op = "partner_read" /\ pcalls[l].ans = "ok"
       /\ pcalls[l].id = pcalls[k].id
       /\ pcalls[l].row # pcalls[k].row
       /\ pstart.partners[pcalls[k].id].vat # <<>>
       /\ Truthy(VatNumber(b2b_orders[pcalls[k].row]))
       /\ NoSpaces(VatNumber(b2b_orders[pcalls[k].row]))
            # NoSpaces(pstart.partners[pcalls[k].id].vat)

\* a dry run followed by a live run of the partner script, both finished
PartnerTwoRuns ==
  /\ pc = "p_done"
  /\ Len(hist) = 2
  /\ hist[1].dry_run /\ hist[1].completed
  /\ ~hist[2].dry_run /\ hist[2].completed

AllAnswered(log) == \A k \in 1..Len(log) : log[k].ans = "ok"

SamePartnerClassification ==
  hist[1].stats = hist[2].stats /\ hist[1].outcome = hist[2].outcome

\* C7 as stated: a dry run and a live run of the partner script on the same rows and
\* the same store, with every remote call answered, give every row the same
\* classification and end with the same counters.
C7_PartnerDryAndLiveAgree ==
  (PartnerTwoRuns /\ AllAnswered(hist[1].calls) /\ AllAnswered(hist[2].calls)) =>
    SamePartnerClassification

\* ------------------------------------------------- further properties
\* C11: when authentication gave no user id the run stops before any item: no order
\* or invoice is searched, read, counted or changed.
C11_FailedAuthProcessesNothing ==
  (uid = NoUid /\ pc \notin {"start", "auth", "p_start", "p_auth"}) =>
    /\ pc \notin {"done", "p_done"}
    /\ stats.checked = 0
    /\ \A i \in DOMAIN calls : calls[i] = <<>>
    /\ pstats.processed = 0
    /\ pcalls = <<>>

\* C13: the parse of the input file never raises, whatever columns the header or a
\* row lacks.
C13_ParseNeverAborts == pc # "p_parse_error"

\* the reads of the two scripts
Reads == {"lines", "state", "order_search", "partner_read", "country_read"}

\* C16: an ambiguous answer to a write (line write, partner create or write, order
\* write) is followed by a read for the same item before the item is classified.
C16_AmbiguousWriteResolvedByRead ==
  /\ \A i \in DOMAIN calls : \A k \in 1..Len(calls[i]) :
       (calls[i][k].op = "write" /\ calls[i][k].ans = "ambiguous") =>
         IF k = Len(calls[i])
         THEN outcome[i] = "none"
         ELSE calls[i][k + 1].op \in Reads
  /\ \A k \in 1..Len(pcalls) :
       (pcalls[k].op \in PMutating /\ pcalls[k].ans = "ambiguous") =>
         IF k = Len(pcalls) \/ pcalls[k + 1].row # pcalls[k].row
         THEN Len(poutcome) < pcalls[k].row
         ELSE pcalls[k + 1].op \in Reads

\* C18: every line write of an invoice comes after a read of the lines that itself
\* comes after the button_draft of the invoice.
C18_LinesReadAfterReset ==
  \A i \in DOMAIN calls : \A k \in 1..Len(calls[i]) :
    calls[i][k].op = "write" =>
      \E b, m \in 1..k : /\ b < m
                         /\ calls[i][b].op = "button_draft"
                         /\ calls[i][m].op = "lines"

\* the first of the fields that is not empty once stripped, stripped
RECURSIVE FirstNonEmpty(_)
FirstNonEmpty(fields) ==
  IF fields = <<>> THEN <<>>
  ELSE IF Head(fields) # None /\ Strip(Head(fields)) # <<>> THEN Strip(Head(fields))
  ELSE FirstNonEmpty(Tail(fields))

\* C19: while a row is processed, vat_number is the first non-empty value among buyer
\* VAT number, invoice business tax id and buyer tax registration id, and
\* company_name the first among invoice business legal name and buyer company name;
\* a field of white space only counts as empty.
C19_FirstNonEmptyFieldWins ==
  pc \in {"p_partner", "p_country", "p_create", "p_order_write", "p_write"} =>
    LET od == b2b_orders[ridx]
    IN /\ vat_number = FirstNonEmpty(<<od.buyer_vat_number, od.invoice_business_tax_id,
                                       od.buyer_tax_registration_id>>)
       /\ company_name = FirstNonEmpty(<<od.invoice_business_legal_name,
                                         od.buyer_company_name>>)

\* the calls made for row k
RowCalls(k) == SelectSeq(pcalls, LAMBDA c : c.row = k)

OrderFields == {"partner_id", "partner_invoice_id", "partner_shipping_id"}

\* C12: in a live run, a row whose calls were all answered and whose order has a
\* generic partner is classified created exactly when its VAT number or company name
\* is not empty; then a partner was created with is_company set and with the VAT
\* number when there is one, and the three partner fields of the order name it;
\* otherwise the row is already correct and no create or write was issued for it.
C12_GenericPartnerReplacedByNew ==
  ~dry_run =>
    \A k \in 1..Len(poutcome) :
      LET log == RowCalls(k)
          od == b2b_orders[k]
          vn == VatNumber(od)
          cn == CompanyName(od)
      IN ( /\ AllAnswered(log)
           /\ \E r \in 1..Len(log) : /\ log[r].op = "partner_read"
                                     /\ GenericName(partners[log[r].id].name) ) =>
           IF vn # <<>> \/ cn # <<>>
           THEN /\ poutcome[k] = "created"
                /\ \E c, w \in 1..Len(log) :
                     /\ log[c].op = "create"
                     /\ log[w].op = "order_write"
                     /\ c < w
                     /\ log[w].fields = OrderFields
                     /\ log[c].id \in DOMAIN partners \ DOMAIN pstart.partners
                     /\ partners[log[c].id].is_company
                     /\ vn # <<>> => partners[log[c].id].vat = vn
                     /\ \A f \in OrderFields : orders[log[w].id][f] = log[c].id
           ELSE /\ poutcome[k] = "already_correct"
                /\ \A c \in 1..Len(log) : log[c].op \notin PMutating

C12_Witness ==
  /\ PartnerLiveRunDone
  /\ AllAnswered(pcalls)
  /\ poutcome = <<"already_correct", "created">>
  /\ \A k \in 1..2 : \E r \in 1..Len(pcalls) :
       /\ pcalls[r].row = k /\ pcalls[r].op = "partner_read"
       /\ GenericName(pstart.partners[pcalls[r].id].name)
  /\ VatNumber(b2b_orders[2]) = <<>>

Count(log, op) == Cardinality({k \in 1..Len(log) : log[k].op = op})

\* C14: for each invoice the calls come in the order button_draft, line writes,
\* action_post; button_draft is issued only for an invoice with a wrong line, no write
\* and no action_post is issued after a reset classified as failed, and button_draft
\* and action_post are issued at most once.
C14_CallsInOrder ==
  \A i \in DOMAIN calls :
    LET log == calls[i]
    IN /\ Count(log, "button_draft") <= 1
       /\ Count(log, "action_post") <= 1
       /\ Count(log, "button_draft") = 1 => WrongLines(start[i]) # {}
       /\ \A k \in 1..Len(log) :
            /\ log[k].op \in {"write", "action_post"} =>
                 \E b \in 1..(k - 1) : log[b].op = "button_draft"
            /\ log[k].op = "write" =>
                 \A a \in 1..k : log[a].op # "action_post"
       /\ outcome[i] = "reset_error" =>
            (Count(log, "write") = 0 /\ Count(log, "action_post") = 0)

C14_Witness ==
  /\ LiveRunDone
  /\ \E i \in DOMAIN calls :
       /\ [k \in 1..Len(calls[i]) |-> calls[i][k].op]
            = <<"lines", "button_draft", "write", "write", "action_post">>
       /\ outcome[i] = "fixed"
  /\ \E i \in DOMAIN calls : outcome[i] = "reset_error"

\* C15: an invoice whose re-post was counted as failed gets no mutating call after
\* the action_post, is in draft with no wrong line, is counted once under
\* repost_errors and as fixed, and the run goes on; a fixed invoice is in draft only
\* when its re-post failed.
C15_FailedRepostLeavesDraftCorrected ==
  /\ stats.repost_errors = Cardinality(repost_failed)
  /\ \A i \in repost_failed :
       LET m == MutatingCalls(calls[i])
       IN /\ m # <<>>
          /\ m[Len(m)].op = "action_post"
          /\ Count(calls[i], "action_post") = 1
          /\ moves[i].state = "draft"
          /\ ~Wrong(moves[i])
          /\ (invoices = <<>> \/ Head(invoices) # i) => outcome[i] = "fixed"
  /\ ~dry_run =>
       \A i \in DOMAIN outcome :
         outcome[i] = "fixed" => (moves[i].state = "draft" <=> i \in repost_failed)

C15_Witness ==
  /\ LiveRunDone
  /\ repost_failed = {2}
  /\ outcome = <<"fixed", "fixed">>
  /\ start[1].prefix = start[2].prefix
  /\ moves[1].state = "posted"

\* C17: a line that carried the wrong tax carries either what it carried or exactly
\* the domestic tax of the prefix of its invoice, and exactly that once its write has
\* answered or its invoice is counted as fixed by a live run; every other line keeps
\* its taxes.
C17_WrongLinesGetDomesticTaxOnly ==
  \A i \in DOMAIN moves : \A j \in 1..Len(moves[i].lines) :
    LET now == moves[i].lines[j].tax_ids
        was == start[i].lines[j].tax_ids
        domestic == {DOMESTIC_TAXES[INVOICE_PREFIX_TO_COUNTRY[moves[i].prefix]]}
    IN IF j \in WrongLines(start[i])
       THEN /\ now \in {was, domestic}
            /\ (outcome[i] = "fixed" /\ ~dry_run) => now = domestic
            /\ (\E k \in 1..Len(calls[i]) : /\ calls[i][k].op = "write"
                                            /\ calls[i][k].line = j
                                            /\ calls[i][k].ans = "ok") => now = domestic
       ELSE now = was

C17_Witness ==
  /\ LiveRunDone
  /\ outcome[1] = "fixed"
  /\ Len(start[1].lines) = 2
  /\ start[1].lines[1].tax_ids = {BE_VAT_21, 5}
  /\ moves[1].lines[1].tax_ids = {135}
  /\ start[1].lines[2].tax_ids = {135}
  /\ start[1].lines[2].display_type = "product"

\* C20: when the partner read is not generic and its VAT number and the VAT number of
\* the row are both non-empty and equal once spaces are removed, the step that reads
\* the partner classifies the row as already correct and ends it: nothing is written.
C20_MatchingVatIsAlreadyCorrect ==
  [][ ( /\ pc = "p_partner"
        /\ Len(pcalls') = Len(pcalls) + 1
        /\ pcalls'[Len(pcalls')].ans = "ok"
        /\ ~GenericName(partners[order.partner_id].name)
        /\ partners[order.partner_id].vat # <<>>
        /\ vat_number # <<>>
        /\ NoSpaces(partners[order.partner_id].vat) = NoSpaces(vat_number) ) =>
      ( /\ poutcome' = Append(poutcome, "already_correct")
        /\ pstats'.already_correct = pstats.already_correct + 1
        /\ pc' \in {"p_find", "p_summary"}
        /\ partners' = partners
        /\ orders' = orders ) ]_vars

C20_Witness ==
  /\ PartnerLiveRunDone
  /\ \E r \in 1..Len(pcalls) :
       LET k == pcalls[r].row
           p == pcalls[r].id
       IN /\ pcalls[r].op = "partner_read" /\ pcalls[r].ans = "ok"
          /\ p \in DOMAIN pstart.partners
          /\ ~GenericName(partners[p].name)
          /\ pstart.partners[p].vat # <<>>
          /\ NoSpaces(pstart.partners[p].vat) = NoSpaces(VatNumber(b2b_orders[k]))
          /\ pstart.partners[p].vat # VatNumber(b2b_orders[k])
          /\ CompanyName(b2b_orders[k]) # <<>>
          /\ ~partners[p].is_company
          /\ poutcome[k] = "already_correct"
          /\ \A c \in 1..Len(pcalls) : pcalls[c].op \notin PMutating

\* C24: the count of pauses goes up by one exactly in a step of a live run that brings
\* posted_fixed to a positive multiple of PauseEvery, and changes in no other step
\* but the start of a run; a dry run never pauses.
C24_PauseEveryTwentyFixed ==
  [][ LET reached == /\ stats'.posted_fixed = stats.posted_fixed + 1
                     /\ stats'.posted_fixed > 0
                     /\ stats'.posted_fixed % 20 = 0
      IN /\ (~dry_run /\ reached) => sleeps' = sleeps + 1
         /\ sleeps' # sleeps =>
              \/ (pc' = "auth" /\ sleeps' = 0)
              \/ (~dry_run /\ reached /\ sleeps' = sleeps + 1)
         /\ dry_run' => sleeps' = 0 ]_vars

C24_Witness ==
  /\ LiveRunDone
  /\ sleeps = 1
  /\ stats.posted_fixed = 20
  /\ stats.skipped = 1
  /\ stats.reset_errors = 1
  /\ outcome[1] = "fixed"

\* C25: between two invoices, and at the end of a run, checked is the sum of skipped,
\* posted_fixed, reset_errors and errors, repost_errors is at most posted_fixed, and
\* lines_fixed is at least posted_fixed.
C25_TaxCountersAddUp ==
  pc \in {"item", "search", "done", "aborted"} =>
    /\ stats.checked = stats.skipped + stats.posted_fixed + stats.reset_errors + stats.errors
    /\ stats.repost_errors <= stats.posted_fixed
    /\ stats.lines_fixed >= stats.posted_fixed

C25_Witness ==
  /\ LiveRunDone
  /\ stats.checked = 2
  /\ stats.posted_fixed = 1
  /\ stats.repost_errors = 1
  /\ stats.reset_errors + stats.errors = 1
  /\ stats.lines_fixed = 2

\* C26: between two rows, and at the end of a run, processed is the sum of
\* partner_updated, partner_created, order_not_found, already_correct and errors, also
\* when a call of the row raised after earlier calls of the row had returned.
C26_PartnerCountersAddUp ==
  (pc \in {"p_summary", "p_done", "p_aborted", "p_parse_error"} \/ (pc = "p_find" /\ pat = 1)) =>
    pstats.processed = pstats.partner_updated + pstats.partner_created
                       + pstats.order_not_found + pstats.already_correct + pstats.errors

C26_Witness ==
  /\ PartnerLiveRunDone
  /\ pstats.processed = 2
  /\ pstats.errors = 1
  /\ pstats.partner_created + pstats.partner_updated = 1
  /\ \E k \in 1..Len(pcalls) :
       /\ pcalls[k].op \in PMutating
       /\ pcalls[k].ans = "fault"
       /\ poutcome[pcalls[k].row] = "error"

\* the partner records created since the start of the run
Created == DOMAIN partners \ DOMAIN pstart.partners

\* C27: at the end of a live partner run every partner record created during the run is
\* the partner, the invoice partner and the shipping partner of some order, and
\* partner_created is the number of those records.
C27_CreatedPartnerIsReferenced ==
  PartnerLiveRunDone =>
    /\ \A n \in Created :
         \E o \in DOMAIN orders : \A f \in OrderFields : orders[o][f] = n
    /\ pstats.partner_created = Cardinality(Created)

\* the orders whose name holds the order id of row k after FBM, and those whose name
\* holds it anywhere
PrefixedMatches(k) ==
  {o \in DOMAIN orders : Contains(orders[o].name, <<"FBM">> \o b2b_orders[k].order_id)}

RawMatches(k) == {o \in DOMAIN orders : Contains(orders[o].name, b2b_orders[k].order_id)}

\* the orders the lookup of row k can return
Located(k) == IF PrefixedMatches(k) # {} THEN PrefixedMatches(k) ELSE RawMatches(k)

Searches(log) == SelectSeq(log, LAMBDA c : c.op = "order_search")

\* C22: the calls of a row start with one or two order searches; when they are
\* answered, there is one search if the name with FBM matches and two otherwise, the
\* order taken is one that the first matching pattern returns, and the row is
\* order_not_found exactly when neither pattern matches, with no call after the two
\* searches.
C22_PrefixedThenRawLookup ==
  /\ \A k \in 1..Len(poutcome) :
       LET log == RowCalls(k)
           n == Len(Searches(log))
       IN /\ n \in 1..2
          /\ \A r \in 1..n : log[r].op = "order_search"
          /\ AllAnswered(Searches(log)) =>
               /\ n = (IF PrefixedMatches(k) # {} THEN 1 ELSE 2)
               /\ poutcome[k] = "order_not_found" <=> Located(k) = {}
          /\ poutcome[k] = "order_not_found" => Len(log) = 2 /\ AllAnswered(log)
  /\ pc \in {"p_partner", "p_country", "p_create", "p_order_write", "p_write"} =>
       order.id \in Located(ridx)

C22_Witness ==
  /\ pc = "p_done"
  /\ Len(poutcome) = 2
  /\ poutcome[1] = "order_not_found"
  /\ Len(RowCalls(1)) = 2
  /\ poutcome[2] \in {"created", "updated"}
  /\ Len(Searches(RowCalls(2))) = 1
  /\ PrefixedMatches(2) # {}

\* C23: a row whose searches were answered and whose order has no partner is an error,
\* its calls are order searches only, and the rows after it are processed.
C23_OrderWithoutPartnerIsError ==
  \A k \in 1..Len(poutcome) :
    ( /\ AllAnswered(Searches(RowCalls(k)))
      /\ Located(k) # {}
      /\ \A o \in Located(k) : orders[o].partner_id = 0 ) =>
      /\ poutcome[k] = "error"
      /\ \A r \in 1..Len(RowCalls(k)) : RowCalls(k)[r].op = "order_search"
      /\ (k < Len(b2b_orders) /\ pc = "p_done") => Len(poutcome) = Len(b2b_orders)

C23_Witness ==
  /\ pc = "p_done"
  /\ Len(poutcome) = 2
  /\ poutcome[1] = "error"
  /\ AllAnswered(pcalls)
  /\ Located(1) # {}
  /\ \A o \in Located(1) : orders[o].partner_id = 0
  /\ poutcome[2] = "error"
  /\ Len(RowCalls(2)) = 1

\* the fields the row in progress has to set on the partner of its order
ExpectedFields ==
  LET p == partners[order.partner_id]
  IN (IF vat_number # <<>> /\ p.vat = <<>> THEN {"vat"} ELSE {})
     \cup (IF company_name # <<>> /\ ~p.is_company THEN {"is_company", "company_type"} ELSE {})

\* the partner of the order in progress is not generic and its VAT number is not the
\* one of the row
PlainPartnerNoMatch ==
  LET p == partners[order.partner_id]
  IN /\ ~GenericName(p.name)
     /\ ~(p.vat # <<>> /\ vat_number # <<>> /\ NoSpaces(p.vat) = NoSpaces(vat_number))

\* C21: after the answered read of a partner that is not generic and has no VAT match,
\* the row is already correct, with no write, when there is no field to set; it is
\* updated without a call in a dry run; in a live run one res.partner write follows,
\* to that partner and with exactly the fields to set (vat when the row has a VAT
\* number and the partner has none, the company flag when the row has a company name
\* and the partner is not a company), and the row is updated when the write returns.
C21_MinimalUpdateSet ==
  [][ /\ ( /\ pc = "p_partner"
           /\ pcalls'[Len(pcalls')].ans = "ok"
           /\ PlainPartnerNoMatch ) =>
           /\ partners' = partners
           /\ Len(pcalls') = Len(pcalls) + 1
           /\ IF ExpectedFields = {}
              THEN poutcome' = Append(poutcome, "already_correct")
              ELSE IF dry_run
              THEN poutcome' = Append(poutcome, "updated")
              ELSE pc' = "p_write" /\ poutcome' = poutcome
      /\ pc' = "p_write" => (pc = "p_partner" /\ PlainPartnerNoMatch /\ ~dry_run)
      /\ pc = "p_write" =>
           LET c == pcalls'[Len(pcalls')]
               id == order.partner_id
           IN /\ pc' # "p_write"
              /\ Len(pcalls') = Len(pcalls) + 1
              /\ c.op = "partner_write"
              /\ c.id = id
              /\ c.fields = ExpectedFields
              /\ c.fields # {}
              /\ c.ans = "ok" =>
                   /\ poutcome' = Append(poutcome, "updated")
                   /\ partners' =
                        [partners EXCEPT ![id] =
                           [f \in DOMAIN @ |->
                              IF f \notin c.fields THEN @[f]
                              ELSE CASE f = "vat" -> vat_number
                                     [] f = "is_company" -> TRUE
                                     [] f = "company_type" -> <<"company">>]] ]_vars

C21_Witness ==
  /\ PartnerLiveRunDone
  /\ \E k \in 1..Len(pcalls) :
       /\ pcalls[k].op = "partner_write"
       /\ pcalls[k].ans = "ok"
       /\ pcalls[k].fields = {"vat", "is_company", "company_type"}
       /\ poutcome[pcalls[k].row] = "updated"
       /\ partners[pcalls[k].id].vat # <<>>
       /\ partners[pcalls[k].id].is_company

====
